---- MODULE Spec2Model ----
(***************************************************************************)
(* Model of the three TMA benchmark-log analysis scripts                   *)
(*   analyze_performance_correct.py  (regex-section splitting)             *)
(*   analyze_performance_fixed.py    (stateful line scanning)              *)
(*   analyze_performance_manual.py   (hard-coded line ranges)              *)
(* Each script's main() reads a log, calls parse_performance_data, then    *)
(* print_summary, then create_plot.  Text is modelled character by         *)
(* character with TLA+ strings; a file is the sequence of its lines        *)
(* without the line terminator.  Times are fixed-point numbers with        *)
(* FracDigits decimal places (0.512 ms is 512).                            *)
(***************************************************************************)
EXTENDS Integers, Sequences, FiniteSets, TLC

(***************************************************************************)
(* Bounds of the model.                                                    *)
(***************************************************************************)
MaxLines == 4        \* longest file of arbitrary lines
MaxSections == 2     \* most sections in a file of well-formed sections
MaxTrials == 2       \* most valid trial lines per section
FracDigits == 3      \* decimal places kept by the fixed-point times

(***************************************************************************)
(* Python values.                                                          *)
(***************************************************************************)
None == "<None>"
NoMatch == "<NoMatch>"

\* str(x) as used by an f-string
Str(x) == IF x = None THEN "None" ELSE x

(***************************************************************************)
(* String primitives: `in`, str.startswith, str.strip.                     *)
(***************************************************************************)
Contains(needle, s) ==
    \E i \in 1..(Len(s) - Len(needle) + 1) : SubSeq(s, i, i + Len(needle) - 1) = needle

StartsWith(s, prefix) ==
    Len(s) >= Len(prefix) /\ SubSeq(s, 1, Len(prefix)) = prefix

\* 1-based position of the first occurrence of needle in s, 0 when absent
Find(needle, s) ==
    IF Contains(needle, s)
    THEN CHOOSE i \in 1..(Len(s) - Len(needle) + 1) :
            /\ SubSeq(s, i, i + Len(needle) - 1) = needle
            /\ \A k \in 1..(i - 1) : SubSeq(s, k, k + Len(needle) - 1) # needle
    ELSE 0

IsSpace(c) == c \in {" ", "\t", "\n", "\r"}

RECURSIVE LStrip(_)
LStrip(s) ==
    IF Len(s) > 0 /\ IsSpace(SubSeq(s, 1, 1)) THEN LStrip(SubSeq(s, 2, Len(s))) ELSE s

RECURSIVE RStrip(_)
RStrip(s) ==
    IF Len(s) > 0 /\ IsSpace(SubSeq(s, Len(s), Len(s)))
    THEN RStrip(SubSeq(s, 1, Len(s) - 1)) ELSE s

Strip(s) == RStrip(LStrip(s))

(***************************************************************************)
(* re.search(r'Completed in ([\d.]+)ms', line) and float(match.group(1)).  *)
(***************************************************************************)
Digits == <<"0", "1", "2", "3", "4", "5", "6", "7", "8", "9">>

IsDigit(c) == \E d \in 1..10 : Digits[d] = c

DigitValue(c) == (CHOOSE d \in 1..10 : Digits[d] = c) - 1

\* the character class [\d.]
IsDigitOrDot(c) == IsDigit(c) \/ c = "."

\* length of the longest run of [\d.] characters of s that starts at position i
RECURSIVE RunLength(_, _)
RunLength(s, i) ==
    IF i <= Len(s) /\ IsDigitOrDot(SubSeq(s, i, i)) THEN 1 + RunLength(s, i + 1) ELSE 0

\* the pattern matches at position i: the literal, a greedy non-empty run, then "ms"
MatchesAt(s, i) ==
    LET lit == "Completed in "
        from == i + Len(lit)
        n == RunLength(s, from)
    IN  /\ i + Len(lit) - 1 <= Len(s)
        /\ SubSeq(s, i, i + Len(lit) - 1) = lit
        /\ n >= 1
        /\ from + n + 1 <= Len(s)
        /\ SubSeq(s, from + n, from + n + 1) = "ms"

\* group(1) of the leftmost match, NoMatch when the search returns None
ReSearch(s) ==
    IF \E i \in 1..Len(s) : MatchesAt(s, i)
    THEN LET i == CHOOSE k \in 1..Len(s) :
                     MatchesAt(s, k) /\ \A m \in 1..(k - 1) : ~MatchesAt(s, m)
             from == i + Len("Completed in ")
         IN  SubSeq(s, from, from + RunLength(s, from) - 1)
    ELSE NoMatch

RECURSIVE CountChar(_, _)
CountChar(s, c) ==
    IF Len(s) = 0 THEN 0
    ELSE (IF SubSeq(s, 1, 1) = c THEN 1 ELSE 0) + CountChar(SubSeq(s, 2, Len(s)), c)

RECURSIVE Pow10(_)
Pow10(n) == IF n <= 0 THEN 1 ELSE 10 * Pow10(n - 1)

\* the integer written by the digits of s, dots skipped
RECURSIVE DigitsValue(_, _)
DigitsValue(s, acc) ==
    IF Len(s) = 0 THEN acc
    ELSE LET c == SubSeq(s, 1, 1)
             rest == SubSeq(s, 2, Len(s))
         IN  IF c = "." THEN DigitsValue(rest, acc) ELSE DigitsValue(rest, 10 * acc + DigitValue(c))

\* float(tok) raises ValueError for a token of digits and dots unless the
\* token has at most one dot and at least one digit
FloatRaises(tok) ==
    LET dots == CountChar(tok, ".")
    IN  dots > 1 \/ Len(tok) - dots < 1

\* float(tok) of a token it accepts, in units of 10^-FracDigits (digits
\* beyond FracDigits places are truncated)
Float(tok) ==
    LET dots == CountChar(tok, ".")
        frac == IF dots = 0 THEN 0 ELSE Len(tok) - Find(".", tok)
    IN  IF frac <= FracDigits THEN DigitsValue(tok, 0) * Pow10(FracDigits - frac)
        ELSE DigitsValue(tok, 0) \div Pow10(frac - FracDigits)

(***************************************************************************)
(* The outcome of reading one trial line: the regex search and float().    *)
(*   "nomatch" the search returns None, the line is skipped                *)
(*   "raise"   float() raises ValueError                                   *)
(*   "time"    the parsed time                                             *)
(***************************************************************************)
TrialTime(line) ==
    LET tok == ReSearch(line)
    IN  IF tok = NoMatch THEN [kind |-> "nomatch", time |-> 0]
        ELSE IF FloatRaises(tok) THEN [kind |-> "raise", time |-> 0]
        ELSE [kind |-> "time", time |-> Float(tok)]

(***************************************************************************)
(* A parser returns its list of test cases or raises ValueError.           *)
(***************************************************************************)
TestCase(name, multicast, deep_copy, times) ==
    [name |-> name, multicast |-> multicast, deep_copy |-> deep_copy, times |-> times]

Returned(cases) == [raised |-> FALSE, cases |-> cases]
Raised == [raised |-> TRUE, cases |-> <<>>]

(***************************************************************************)
(* analyze_performance_fixed.py: parse_performance_data.                   *)
(* current_case is <<>> for None and <<case>> for a dict.                  *)
(***************************************************************************)
LookAhead == 5

\* the look-ahead loop: the depth named by the first of the lines
\* i+1 .. min(i+LookAhead, len(lines))-1 (0-based) that holds a marker
RECURSIVE DeepCopyAhead(_, _, _)
DeepCopyAhead(lines, j, stop) ==
    IF j >= stop THEN None
    ELSE LET next_line == Strip(lines[j + 1])
         IN  IF Contains("Deep copy 2X", next_line) THEN "2X"
             ELSE IF Contains("Deep copy 4X", next_line) THEN "4X"
             ELSE DeepCopyAhead(lines, j + 1, stop)

Min(a, b) == IF a <= b THEN a ELSE b

\* the if/elif chain of one iteration; i is the 0-based index of the code
FixedBranch(lines, i, current_case, test_cases) ==
    LET line == Strip(lines[i + 1])
        same == [raised |-> FALSE, current_case |-> current_case, test_cases |-> test_cases]
    IN  IF Contains("Copy with TMA load and store -- no swizzling", line)
        THEN [same EXCEPT !.current_case = <<TestCase("TMA No Swizzling", FALSE, "1X", <<>>)>>]
        ELSE IF Contains("Copy with TMA Multicast load and store", line)
        THEN [same EXCEPT !.current_case = <<TestCase("TMA Multicast", TRUE, None, <<>>)>>]
        ELSE IF Contains("Copy with TMA load and store, NO multicast", line)
        THEN [same EXCEPT !.current_case = <<TestCase("TMA No Multicast", FALSE, None, <<>>)>>]
        ELSE IF current_case # <<>> /\ StartsWith(line, "Trial") /\ Contains("Completed in", line)
        THEN LET t == TrialTime(line)
             IN  IF t.kind = "nomatch" THEN same
                 ELSE IF t.kind = "raise" THEN [same EXCEPT !.raised = TRUE]
                 ELSE [same EXCEPT !.current_case =
                          <<[current_case[1] EXCEPT !.times = Append(@, t.time)]>>]
        ELSE IF StartsWith(line, "Success") /\ current_case # <<>> /\ current_case[1].times # <<>>
        THEN [same EXCEPT !.test_cases = Append(test_cases, current_case[1]),
                          !.current_case = <<>>]
        ELSE same

\* the second if of the iteration: fill a missing depth from the lines ahead
FixedLookAhead(lines, i, current_case) ==
    IF current_case # <<>> /\ current_case[1].deep_copy = None
    THEN <<[current_case[1] EXCEPT !.deep_copy =
              DeepCopyAhead(lines, i + 1, Min(i + LookAhead, Len(lines)))]>>
    ELSE current_case

RECURSIVE FixedLoop(_, _, _, _)
FixedLoop(lines, i, current_case, test_cases) ==
    IF i >= Len(lines) THEN Returned(test_cases)
    ELSE LET b == FixedBranch(lines, i, current_case, test_cases)
         IN  IF b.raised THEN Raised
             ELSE FixedLoop(lines, i + 1, FixedLookAhead(lines, i, b.current_case), b.test_cases)

parse_performance_data_fixed(lines) == FixedLoop(lines, 0, <<>>, <<>>)

(***************************************************************************)
(* analyze_performance_correct.py: parse_performance_data.                 *)
(* A piece of re.split's result is kept as the sequence of the text        *)
(* between its newlines, which is what section.split('\n') gives.  The     *)
(* pattern 'Copy with.*' matches from the first "Copy with" of a line to   *)
(* the end of that line.                                                   *)
(***************************************************************************)
\* re.split(r'(Copy with.*)', content): done holds the finished pieces,
\* piece the text of the piece being collected
RECURSIVE ReSplit(_, _, _, _)
ReSplit(lines, k, done, piece) ==
    IF k > Len(lines) THEN Append(done, Append(piece, ""))
    ELSE LET line == lines[k]
             at == Find("Copy with", line)
         IN  IF at = 0 THEN ReSplit(lines, k + 1, done, Append(piece, line))
             ELSE ReSplit(lines, k + 1,
                          done \o << Append(piece, SubSeq(line, 1, at - 1)),
                                     <<SubSeq(line, at, Len(line))>> >>,
                          <<"">>)

\* needle in section, for a needle without a newline
InSection(needle, section) == \E k \in 1..Len(section) : Contains(needle, section[k])

\* the loop over section.split('\n'): the times, or a raise
RECURSIVE SectionTimes(_, _, _)
SectionTimes(section, k, times) ==
    IF k > Len(section) THEN [raised |-> FALSE, times |-> times]
    ELSE LET line == section[k]
         IN  IF Contains("Trial", line) /\ Contains("Completed in", line)
             THEN LET t == TrialTime(line)
                  IN  IF t.kind = "raise" THEN [raised |-> TRUE, times |-> <<>>]
                      ELSE IF t.kind = "nomatch" THEN SectionTimes(section, k + 1, times)
                      ELSE SectionTimes(section, k + 1, Append(times, t.time))
             ELSE SectionTimes(section, k + 1, times)

\* x or "Unknown"
OrUnknown(x) == IF x = None \/ x = "" THEN "Unknown" ELSE x

\* the test case appended for a section with times, <<>> on `continue`
CorrectCase(current_section, current_deep_copy, times) ==
    IF Contains("no swizzling", current_section)
    THEN <<TestCase("TMA No Swizzling", FALSE, "1X", times)>>
    ELSE IF Contains("Multicast", current_section) /\ ~Contains("NO multicast", current_section)
    THEN <<TestCase("TMA Multicast", TRUE, OrUnknown(current_deep_copy), times)>>
    ELSE IF Contains("NO multicast", current_section)
    THEN <<TestCase("TMA No Multicast", FALSE, OrUnknown(current_deep_copy), times)>>
    ELSE <<>>

RECURSIVE CorrectLoop(_, _, _, _, _)
CorrectLoop(sections, i, current_section, current_deep_copy, test_cases) ==
    IF i > Len(sections) THEN Returned(test_cases)
    ELSE LET section == sections[i]
         IN  IF StartsWith(section[1], "Copy with")
             THEN CorrectLoop(sections, i + 1, Strip(section[1]), None, test_cases)
             ELSE IF InSection("Deep copy 2X", section)
             THEN CorrectLoop(sections, i + 1, current_section, "2X", test_cases)
             ELSE IF InSection("Deep copy 4X", section)
             THEN CorrectLoop(sections, i + 1, current_section, "4X", test_cases)
             ELSE IF current_section # None /\ current_section # "" /\ InSection("Trial", section)
             THEN LET r == SectionTimes(section, 1, <<>>)
                  IN  IF r.raised THEN Raised
                      ELSE IF r.times # <<>>
                      THEN CorrectLoop(sections, i + 1, current_section, current_deep_copy,
                               test_cases \o CorrectCase(current_section, current_deep_copy, r.times))
                      ELSE CorrectLoop(sections, i + 1, current_section, current_deep_copy, test_cases)
             ELSE CorrectLoop(sections, i + 1, current_section, current_deep_copy, test_cases)

parse_performance_data_correct(lines) ==
    CorrectLoop(ReSplit(lines, 1, <<>>, <<>>), 1, None, None, <<>>)

(***************************************************************************)
(* analyze_performance_manual.py: parse_performance_data.                  *)
(* The five hard-coded cases, each with its range(lo, hi) of 0-based line  *)
(* indices.                                                                *)
(***************************************************************************)
ManualCases ==
    << [name |-> "TMA No Swizzling", multicast |-> FALSE, deep_copy |-> "1X", lo |-> 4,  hi |-> 14],
       [name |-> "TMA Multicast",    multicast |-> TRUE,  deep_copy |-> "2X", lo |-> 18, hi |-> 28],
       [name |-> "TMA Multicast",    multicast |-> TRUE,  deep_copy |-> "4X", lo |-> 32, hi |-> 42],
       [name |-> "TMA No Multicast", multicast |-> FALSE, deep_copy |-> "2X", lo |-> 46, hi |-> 56],
       [name |-> "TMA No Multicast", multicast |-> FALSE, deep_copy |-> "4X", lo |-> 60, hi |-> 70] >>

\* for i in range(lo, hi): the times of the trial lines, or a raise
RECURSIVE RangeTimes(_, _, _, _)
RangeTimes(lines, i, hi, times) ==
    IF i >= hi THEN [raised |-> FALSE, times |-> times]
    ELSE IF i < Len(lines) /\ Contains("Trial", lines[i + 1]) /\ Contains("Completed in", lines[i + 1])
    THEN LET t == TrialTime(lines[i + 1])
         IN  IF t.kind = "raise" THEN [raised |-> TRUE, times |-> <<>>]
             ELSE IF t.kind = "nomatch" THEN RangeTimes(lines, i + 1, hi, times)
             ELSE RangeTimes(lines, i + 1, hi, Append(times, t.time))
    ELSE RangeTimes(lines, i + 1, hi, times)

RECURSIVE ManualLoop(_, _, _)
ManualLoop(lines, c, test_cases) ==
    IF c > Len(ManualCases) THEN Returned(test_cases)
    ELSE LET mc == ManualCases[c]
             r == RangeTimes(lines, mc.lo, mc.hi, <<>>)
         IN  IF r.raised THEN Raised
             ELSE ManualLoop(lines, c + 1,
                     Append(test_cases, TestCase(mc.name, mc.multicast, mc.deep_copy, r.times)))

parse_performance_data_manual(lines) == ManualLoop(lines, 1, <<>>)

(***************************************************************************)
(* calculate_statistics (the same code in the three scripts).              *)
(* np.min raises ValueError for an empty array.  mean and std are          *)
(* truncated to the fixed-point unit.                                      *)
(***************************************************************************)
RECURSIVE Sum(_)
Sum(xs) == IF xs = <<>> THEN 0 ELSE Head(xs) + Sum(Tail(xs))

RECURSIVE SumSq(_, _)
SumSq(xs, m) == IF xs = <<>> THEN 0 ELSE (Head(xs) - m) * (Head(xs) - m) + SumSq(Tail(xs), m)

MinOf(xs) == CHOOSE x \in {xs[k] : k \in 1..Len(xs)} : \A k \in 1..Len(xs) : x <= xs[k]
MaxOf(xs) == CHOOSE x \in {xs[k] : k \in 1..Len(xs)} : \A k \in 1..Len(xs) : x >= xs[k]

\* integer square root
ISqrt(n) == CHOOSE r \in 0..n : r * r <= n /\ (r + 1) * (r + 1) > n

StatisticsRaises(times) == times = <<>>

calculate_statistics(times) ==
    LET mean == Sum(times) \div Len(times)
    IN  [mean  |-> mean,
         std   |-> ISqrt(SumSq(times, mean) \div Len(times)),
         min   |-> MinOf(times),
         max   |-> MaxOf(times),
         count |-> Len(times)]

(***************************************************************************)
(* Python's order of strings (by code point) and of the sort key           *)
(* (x['name'], x['deep_copy']); list.sort is stable.                       *)
(***************************************************************************)
\* the characters of names and depths, in code-point order
CodePoints == " ()0123456789ABCDEFGHIJKLMNOPQRSTUVWXYZabcdefghijklmnopqrstuvwxyz"

Ord(c) == Find(c, CodePoints)

RECURSIVE StrLess(_, _)
StrLess(a, b) ==
    IF Len(b) = 0 THEN FALSE
    ELSE IF Len(a) = 0 THEN TRUE
    ELSE IF SubSeq(a, 1, 1) = SubSeq(b, 1, 1)
    THEN StrLess(SubSeq(a, 2, Len(a)), SubSeq(b, 2, Len(b)))
    ELSE Ord(SubSeq(a, 1, 1)) < Ord(SubSeq(b, 1, 1))

KeyLess(x, y) ==
    \/ StrLess(x.name, y.name)
    \/ x.name = y.name /\ StrLess(x.deep_copy, y.deep_copy)

\* x placed after every element that is not greater than it
RECURSIVE InsertSorted(_, _)
InsertSorted(sorted, x) ==
    IF sorted = <<>> THEN <<x>>
    ELSE IF KeyLess(x, Head(sorted)) THEN <<x>> \o sorted
    ELSE <<Head(sorted)>> \o InsertSorted(Tail(sorted), x)

RECURSIVE SortCases(_, _)
SortCases(cases, sorted) ==
    IF cases = <<>> THEN sorted ELSE SortCases(Tail(cases), InsertSorted(sorted, Head(cases)))

\* test_cases.sort(key=lambda x: (x['name'], x['deep_copy']))
Sort(test_cases) == SortCases(test_cases, <<>>)

(***************************************************************************)
(* print_summary.  A printed block is kept as its title line               *)
(* "name (deep_copy)", the case it was printed for and the statistics.     *)
(* calls is the sequence of arguments passed to calculate_statistics.      *)
(***************************************************************************)
Title(name, deep_copy) == name \o " (" \o Str(deep_copy) \o ")"

Block(c, stats) ==
    [title |-> Title(c.name, c.deep_copy), name |-> c.name, deep_copy |-> c.deep_copy,
     mean |-> stats.mean, std |-> stats.std, min |-> stats.min, max |-> stats.max,
     count |-> stats.count]

\* for case in test_cases: if case['times']: ...
RECURSIVE SummaryLoop(_, _, _, _)
SummaryLoop(test_cases, k, printed, calls) ==
    IF k > Len(test_cases)
    THEN [raised |-> FALSE, test_cases |-> test_cases, printed |-> printed, calls |-> calls]
    ELSE LET c == test_cases[k]
         IN  IF c.times # <<>>
             THEN IF StatisticsRaises(c.times)
                  THEN [raised |-> TRUE, test_cases |-> test_cases, printed |-> printed,
                        calls |-> Append(calls, c.times)]
                  ELSE SummaryLoop(test_cases, k + 1,
                                   Append(printed, Block(c, calculate_statistics(c.times))),
                                   Append(calls, c.times))
             ELSE SummaryLoop(test_cases, k + 1, printed, calls)

\* analyze_performance_correct.py sorts the list in place first
print_summary_correct(test_cases) == SummaryLoop(Sort(test_cases), 1, <<>>, <<>>)

print_summary_fixed(test_cases) == SummaryLoop(test_cases, 1, <<>>, <<>>)

\* print_summary without the `if case['times']` test
RECURSIVE SummaryLoopUnguarded(_, _, _, _)
SummaryLoopUnguarded(test_cases, k, printed, calls) ==
    IF k > Len(test_cases)
    THEN [raised |-> FALSE, test_cases |-> test_cases, printed |-> printed, calls |-> calls]
    ELSE LET c == test_cases[k]
         IN  IF StatisticsRaises(c.times)
             THEN [raised |-> TRUE, test_cases |-> test_cases, printed |-> printed,
                   calls |-> Append(calls, c.times)]
             ELSE SummaryLoopUnguarded(test_cases, k + 1,
                                       Append(printed, Block(c, calculate_statistics(c.times))),
                                       Append(calls, c.times))

print_summary_manual_unguarded(test_cases) == SummaryLoopUnguarded(test_cases, 1, <<>>, <<>>)

print_summary_manual(test_cases) == SummaryLoop(test_cases, 1, <<>>, <<>>)

(***************************************************************************)
(* create_plot.  A bar is kept as its axis label, height (mean), error     *)
(* bar (std) and colour.                                                   *)
(***************************************************************************)
color_map ==
    ("TMA No Swizzling" :> "blue") @@ ("TMA Multicast" :> "red") @@ ("TMA No Multicast" :> "green")

Bar(case_name, stats, color) ==
    [case_name |-> case_name, mean |-> stats.mean, std |-> stats.std, color |-> color]

PlotResult(raised, test_cases, bars, calls) ==
    [raised |-> raised, test_cases |-> test_cases, bars |-> bars, calls |-> calls]

\* analyze_performance_correct.py: for case in test_cases: if case['times']: ...
RECURSIVE PlotLoopCorrect(_, _, _, _)
PlotLoopCorrect(test_cases, k, bars, calls) ==
    IF k > Len(test_cases) THEN PlotResult(FALSE, test_cases, bars, calls)
    ELSE LET c == test_cases[k]
         IN  IF c.times # <<>>
             THEN IF StatisticsRaises(c.times)
                  THEN PlotResult(TRUE, test_cases, bars, Append(calls, c.times))
                  ELSE IF c.name \notin DOMAIN color_map
                  THEN PlotResult(TRUE, test_cases, bars, Append(calls, c.times))
                  ELSE PlotLoopCorrect(test_cases, k + 1,
                          Append(bars, Bar(Title(c.name, c.deep_copy),
                                           calculate_statistics(c.times), color_map[c.name])),
                          Append(calls, c.times))
             ELSE PlotLoopCorrect(test_cases, k + 1, bars, calls)

create_plot_correct(test_cases) == PlotLoopCorrect(Sort(test_cases), 1, <<>>, <<>>)

\* analyze_performance_manual.py: the loop also leaves out 'TMA No Multicast'
RECURSIVE PlotLoopManual(_, _, _, _)
PlotLoopManual(test_cases, k, bars, calls) ==
    IF k > Len(test_cases) THEN PlotResult(FALSE, test_cases, bars, calls)
    ELSE LET c == test_cases[k]
         IN  IF c.times # <<>> /\ c.name # "TMA No Multicast"
             THEN IF StatisticsRaises(c.times)
                  THEN PlotResult(TRUE, test_cases, bars, Append(calls, c.times))
                  ELSE IF c.name \notin DOMAIN color_map
                  THEN PlotResult(TRUE, test_cases, bars, Append(calls, c.times))
                  ELSE PlotLoopManual(test_cases, k + 1,
                          Append(bars, Bar(Title(c.name, c.deep_copy),
                                           calculate_statistics(c.times), color_map[c.name])),
                          Append(calls, c.times))
             ELSE PlotLoopManual(test_cases, k + 1, bars, calls)

\* create_plot without the exclusion of 'TMA No Multicast'
create_plot_manual_unfiltered(test_cases) == PlotLoopCorrect(test_cases, 1, <<>>, <<>>)

create_plot_manual(test_cases) == PlotLoopManual(test_cases, 1, <<>>, <<>>)

\* analyze_performance_fixed.py: the keys of grouped_cases in insertion order
RECURSIVE GroupKeys(_, _, _)
GroupKeys(test_cases, k, keys) ==
    IF k > Len(test_cases) THEN keys
    ELSE LET key == Title(test_cases[k].name, test_cases[k].deep_copy)
         IN  IF \E n \in 1..Len(keys) : keys[n] = key
             THEN GroupKeys(test_cases, k + 1, keys)
             ELSE GroupKeys(test_cases, k + 1, Append(keys, key))

\* all_times of one key: the times of its cases, extended in list order
RECURSIVE AllTimes(_, _, _)
AllTimes(test_cases, k, key) ==
    IF k > Len(test_cases) THEN <<>>
    ELSE (IF Title(test_cases[k].name, test_cases[k].deep_copy) = key
          THEN test_cases[k].times ELSE <<>>) \o AllTimes(test_cases, k + 1, key)

\* the colour chosen from the text of the key
KeyColor(key) ==
    IF Contains("No Swizzling", key) THEN color_map["TMA No Swizzling"]
    ELSE IF Contains("Multicast", key) /\ ~Contains("NO multicast", key)
    THEN color_map["TMA Multicast"]
    ELSE color_map["TMA No Multicast"]

RECURSIVE PlotLoopFixed(_, _, _, _, _)
PlotLoopFixed(test_cases, keys, g, bars, calls) ==
    IF g > Len(keys) THEN PlotResult(FALSE, test_cases, bars, calls)
    ELSE LET key == keys[g]
             all_times == AllTimes(test_cases, 1, key)
         IN  IF all_times # <<>>
             THEN IF StatisticsRaises(all_times)
                  THEN PlotResult(TRUE, test_cases, bars, Append(calls, all_times))
                  ELSE PlotLoopFixed(test_cases, keys, g + 1,
                          Append(bars, Bar(key, calculate_statistics(all_times), KeyColor(key))),
                          Append(calls, all_times))
             ELSE PlotLoopFixed(test_cases, keys, g + 1, bars, calls)

create_plot_fixed(test_cases) ==
    PlotLoopFixed(test_cases, GroupKeys(test_cases, 1, <<>>), 1, <<>>, <<>>)

(***************************************************************************)
(* The input logs.                                                         *)
(***************************************************************************)
HeaderNoSwizzling == "Copy with TMA load and store -- no swizzling"
HeaderMulticast   == "Copy with TMA Multicast load and store"
HeaderNoMulticast == "Copy with TMA load and store, NO multicast"
DeepCopy2X        == "Deep copy 2X"
DeepCopy4X        == "Deep copy 4X"
Trial1            == "Trial 1: Completed in 0.512ms"
Trial2            == "Trial 2: Completed in 0.498ms"
TrialBadNumber    == "Trial 3: Completed in 1.2.3ms"
TrialNoNumber     == "Trial 4: Completed in ms"
SuccessLine       == "Success"

Headers == {HeaderNoSwizzling, HeaderMulticast, HeaderNoMulticast}
Markers == {DeepCopy2X, DeepCopy4X}

\* k valid trial lines with alternating times
TrialRun(k) == [i \in 1..k |-> IF i % 2 = 1 THEN Trial1 ELSE Trial2]

\* files of arbitrary lines
Vocabulary ==
    Headers \cup Markers \cup {Trial1, TrialBadNumber, TrialNoNumber, SuccessLine}

ShortFiles == UNION {[1..n -> Vocabulary] : n \in 0..MaxLines}

\* files of well-formed sections: a header, an optional depth marker, one
\* or more valid trial lines, a Success line
Sections ==
    {<<h>> \o m \o TrialRun(k) \o <<SuccessLine>> :
        h \in Headers, m \in {<<>>} \cup {<<d>> : d \in Markers}, k \in 1..MaxTrials}

RECURSIVE SectionFilesOf(_)
SectionFilesOf(n) ==
    IF n = 0 THEN {<<>>}
    ELSE LET shorter == SectionFilesOf(n - 1)
         IN  shorter \cup {f \o sec : f \in shorter, sec \in Sections}

SectionFiles == SectionFilesOf(MaxSections)

\* files in the layout analyze_performance_manual.py expects: case c has
\* its header and marker on the two lines before its range, count[c] valid
\* trial lines at the start of the range, then the line extra (a malformed
\* trial line or nothing), and a Success line after the range
LayoutHeaders ==
    <<HeaderNoSwizzling, HeaderMulticast, HeaderMulticast, HeaderNoMulticast, HeaderNoMulticast>>
LayoutMarkers == <<"", DeepCopy2X, DeepCopy4X, DeepCopy2X, DeepCopy4X>>

LayoutLine(i, count, extra) ==
    IF \E c \in 1..Len(ManualCases) : ManualCases[c].lo <= i /\ i < ManualCases[c].hi
    THEN LET c == CHOOSE n \in 1..Len(ManualCases) : ManualCases[n].lo <= i /\ i < ManualCases[n].hi
             slot == i - ManualCases[c].lo + 1
         IN  IF slot <= count[c] THEN TrialRun(count[c])[slot]
             ELSE IF slot = count[c] + 1 THEN extra
             ELSE ""
    ELSE IF \E c \in 1..Len(ManualCases) : i = ManualCases[c].lo - 2
    THEN LayoutHeaders[CHOOSE c \in 1..Len(ManualCases) : i = ManualCases[c].lo - 2]
    ELSE IF \E c \in 1..Len(ManualCases) : i = ManualCases[c].lo - 1
    THEN LayoutMarkers[CHOOSE c \in 1..Len(ManualCases) : i = ManualCases[c].lo - 1]
    ELSE IF \E c \in 1..Len(ManualCases) : i = ManualCases[c].hi
    THEN SuccessLine
    ELSE ""

Layout(count, extra) ==
    [n \in 1..(ManualCases[Len(ManualCases)].hi + 1) |-> LayoutLine(n - 1, count, extra)]

LayoutFiles ==
    {Layout(count, extra) :
        count \in [1..Len(ManualCases) -> 0..MaxTrials],
        extra \in {"", TrialBadNumber, TrialNoNumber}}

Files == ShortFiles \cup SectionFiles \cup LayoutFiles

Scripts == {"correct", "fixed", "manual"}

(***************************************************************************)
(* main() of each script: parse, print the summary, draw the chart.        *)
(***************************************************************************)
VARIABLES
    script,      \* the script that runs
    lines,       \* the lines of the input log
    pc,          \* "main", "parsed", "printed", "plotted", or "raised"
    test_cases,  \* the list main() holds
    printed,     \* the blocks print_summary wrote
    bars,        \* the bars create_plot drew
    calls        \* the arguments calculate_statistics was called with

vars == <<script, lines, pc, test_cases, printed, bars, calls>>

Init ==
    /\ script \in Scripts
    /\ lines \in Files
    /\ pc = "main"
    /\ test_cases = <<>>
    /\ printed = <<>>
    /\ bars = <<>>
    /\ calls = <<>>

\* test_cases = parse_performance_data(filename)
ParseStep(r) ==
    /\ pc = "main"
    /\ pc' = IF r.raised THEN "raised" ELSE "parsed"
    /\ test_cases' = r.cases
    /\ UNCHANGED <<script, lines, printed, bars, calls>>

ParseCorrect == script = "correct" /\ ParseStep(parse_performance_data_correct(lines))
ParseFixed   == script = "fixed"   /\ ParseStep(parse_performance_data_fixed(lines))
ParseManual  == script = "manual"  /\ ParseStep(parse_performance_data_manual(lines))

\* print_summary(test_cases)
SummaryStep(r) ==
    /\ pc = "parsed"
    /\ pc' = IF r.raised THEN "raised" ELSE "printed"
    /\ test_cases' = r.test_cases
    /\ printed' = r.printed
    /\ calls' = calls \o r.calls
    /\ UNCHANGED <<script, lines, bars>>

PrintSummaryCorrect == script = "correct" /\ SummaryStep(print_summary_correct(test_cases))
PrintSummaryFixed   == script = "fixed"   /\ SummaryStep(print_summary_fixed(test_cases))
PrintSummaryManual  == script = "manual"  /\ SummaryStep(print_summary_manual(test_cases))

\* fig = create_plot(test_cases)
PlotStep(r) ==
    /\ pc = "printed"
    /\ pc' = IF r.raised THEN "raised" ELSE "plotted"
    /\ test_cases' = r.test_cases
    /\ bars' = r.bars
    /\ calls' = calls \o r.calls
    /\ UNCHANGED <<script, lines, printed>>

CreatePlotCorrect == script = "correct" /\ PlotStep(create_plot_correct(test_cases))
CreatePlotFixed   == script = "fixed"   /\ PlotStep(create_plot_fixed(test_cases))
CreatePlotManual  == script = "manual"  /\ PlotStep(create_plot_manual(test_cases))

Next ==
    \/ ParseCorrect
    \/ ParseFixed
    \/ ParseManual
    \/ PrintSummaryCorrect
    \/ PrintSummaryFixed
    \/ PrintSummaryManual
    \/ CreatePlotCorrect
    \/ CreatePlotFixed
    \/ CreatePlotManual

Spec == Init /\ [][Next]_vars

(***************************************************************************)
(* Reading a log as the format describes it: a sequence of well-formed     *)
(* sections (header, optional depth marker, K >= 1 valid trial lines,      *)
(* Success).                                                               *)
(***************************************************************************)
IsValidTrialLine(l) == l \in {Trial1, Trial2}

RECURSIVE ValidRun(_, _)
ValidRun(f, j) == IF j <= Len(f) /\ IsValidTrialLine(f[j]) THEN 1 + ValidRun(f, j + 1) ELSE 0

LabelOf(header) ==
    IF header = HeaderNoSwizzling THEN "TMA No Swizzling"
    ELSE IF header = HeaderMulticast THEN "TMA Multicast"
    ELSE "TMA No Multicast"

RECURSIVE LogSections(_, _)
LogSections(f, i) ==
    IF i > Len(f) THEN [ok |-> TRUE, sections |-> <<>>]
    ELSE IF f[i] \notin Headers THEN [ok |-> FALSE, sections |-> <<>>]
    ELSE LET hasMarker == i + 1 <= Len(f) /\ f[i + 1] \in Markers
             j == IF hasMarker THEN i + 2 ELSE i + 1
             k == ValidRun(f, j)
         IN  IF k >= 1 /\ j + k <= Len(f) /\ f[j + k] = SuccessLine
             THEN LET rest == LogSections(f, j + k + 1)
                  IN  [ok |-> rest.ok,
                       sections |-> <<[label  |-> LabelOf(f[i]),
                                       marker |-> IF hasMarker THEN f[i + 1] ELSE "",
                                       times  |-> [n \in 1..k |-> TrialTime(f[j + n - 1]).time]]>>
                                    \o rest.sections]
             ELSE [ok |-> FALSE, sections |-> <<>>]

\* the sections of the input when it is made of well-formed sections
WellFormed == LogSections(lines, 1).ok
InputSections == LogSections(lines, 1).sections

\* C1: for input made of well-formed sections, parse_performance_data of the
\* regex-splitting and of the line-scanning script returns, for every section
\* with K trial lines, a TestCase whose times are exactly those K values in
\* log order.
C1_KTrialsPerSection ==
    (pc = "parsed" /\ script \in {"correct", "fixed"} /\ WellFormed) =>
        \A n \in 1..Len(InputSections) :
            \E k \in 1..Len(test_cases) :
                /\ test_cases[k].name = InputSections[n].label
                /\ test_cases[k].times = InputSections[n].times

\* C2: in the line-scanning and the regex-splitting parser, a Multicast or
\* No-Multicast section with valid trials and no depth marker (here: a
\* well-formed log without any marker line) is returned with deep_copy equal
\* to "Unknown", and parsing does not raise.
NoMarkerLine == \A n \in 1..Len(lines) : lines[n] \notin Markers

C2_DepthDefaultsToUnknown ==
    (script \in {"correct", "fixed"} /\ WellFormed /\ NoMarkerLine) =>
        /\ pc # "raised"
        /\ pc = "parsed" =>
              \A k \in 1..Len(test_cases) :
                  test_cases[k].name \in {"TMA Multicast", "TMA No Multicast"} =>
                      test_cases[k].deep_copy = "Unknown"

\* C3: in the line-scanning parser the depth of a Multicast / No-Multicast
\* TestCase comes only from a marker line of its own section: in a log of
\* well-formed sections, where the n-th TestCase is the n-th section, a
\* section without a marker never gets the depth 2X or 4X.
C3_NoDepthLeak ==
    (pc = "parsed" /\ script = "fixed" /\ WellFormed) =>
        \A n \in 1..Min(Len(InputSections), Len(test_cases)) :
            InputSections[n].marker = "" => test_cases[n].deep_copy \notin {"2X", "4X"}

\* C4: when the input has two sections of the same (label, depth) identity
\* with n1 and n2 valid trials, the regex-splitting and the line-scanning
\* script have exactly one TestCase for that identity in the parser result,
\* in the printed summary and in the chart, with n1 + n2 trials.
TwoSectionsSameIdentity ==
    /\ WellFormed
    /\ Len(InputSections) = 2
    /\ InputSections[1].label = InputSections[2].label
    /\ InputSections[1].marker = InputSections[2].marker

C4_SectionsMerged ==
    (script \in {"correct", "fixed"} /\ TwoSectionsSameIdentity) =>
        LET total == Len(InputSections[1].times) + Len(InputSections[2].times)
        IN  /\ pc = "parsed" => Len(test_cases) = 1 /\ Len(test_cases[1].times) = total
            /\ pc = "printed" => Len(printed) = 1 /\ printed[1].count = total
            /\ pc = "plotted" => Len(bars) = 1

\* C5: in all three parsers a line that has "Trial" and "Completed in" but no
\* number that parses is skipped: parse_performance_data never raises.
C5_BadNumberSkipped == pc # "raised"

\* C6: every TestCase in the list returned by parse_performance_data has at
\* least one time, in each of the three scripts and for every input file.
C6_ReturnedCasesNonEmpty ==
    pc = "parsed" => \A k \in 1..Len(test_cases) : test_cases[k].times # <<>>

\* C7: in every script's create_plot each bar has the fixed colour of its
\* TestCase label: blue for No Swizzling, red for Multicast, green for No
\* Multicast.
LabelColor(name) ==
    IF name = "TMA No Swizzling" THEN "blue"
    ELSE IF name = "TMA Multicast" THEN "red"
    ELSE "green"

C7_ColourPerLabel ==
    pc = "plotted" =>
        \A b \in 1..Len(bars) : \A k \in 1..Len(test_cases) :
            bars[b].case_name = Title(test_cases[k].name, test_cases[k].deep_copy) =>
                bars[b].color = LabelColor(test_cases[k].name)

\* C8: print_summary of each of the three scripts emits the blocks in
\* non-decreasing order of (label, depth), whatever the order of the
\* sections in the log.
C8_SummarySorted ==
    pc \in {"printed", "plotted"} =>
        \A i \in 1..Len(printed) : \A j \in (i + 1)..Len(printed) :
            ~KeyLess(printed[j], printed[i])

\* C9: in the fixed-line-range script create_plot draws exactly one bar per
\* TestCase that has a time and is not 'TMA No Multicast', while
\* print_summary prints a block for every TestCase that has a time, the
\* 'TMA No Multicast' ones included.
HasTimes(k) == test_cases[k].times # <<>>
Charted(k) == HasTimes(k) /\ test_cases[k].name # "TMA No Multicast"
TitleOfCase(k) == Title(test_cases[k].name, test_cases[k].deep_copy)

C9_ManualChartFilter ==
    (script = "manual" /\ pc = "plotted") =>
        /\ Len(bars) = Cardinality({k \in 1..Len(test_cases) : Charted(k)})
        /\ \A k \in 1..Len(test_cases) :
              Charted(k) <=> \E b \in 1..Len(bars) : bars[b].case_name = TitleOfCase(k)
        /\ Len(printed) = Cardinality({k \in 1..Len(test_cases) : HasTimes(k)})
        /\ \A k \in 1..Len(test_cases) :
              HasTimes(k) <=> \E p \in 1..Len(printed) : printed[p].title = TitleOfCase(k)

\* one 'TMA No Multicast' and one 'TMA Multicast' case with times: one bar,
\* two blocks
C9_Witness ==
    /\ script = "manual"
    /\ pc = "plotted"
    /\ Cardinality({k \in 1..Len(test_cases) : HasTimes(k)}) = 2
    /\ \E k \in 1..Len(test_cases) : HasTimes(k) /\ test_cases[k].name = "TMA No Multicast"
    /\ \E k \in 1..Len(test_cases) : HasTimes(k) /\ test_cases[k].name = "TMA Multicast"
    /\ Len(bars) = 1
    /\ Len(printed) = 2

\* C10: in all three scripts calculate_statistics is never called with an
\* empty sequence; a block or a bar exists only for a TestCase (or merged
\* group) with at least one time, and a TestCase without times is in neither
\* the report nor the chart.
C10_NoEmptyStatistics ==
    /\ \A n \in 1..Len(calls) : calls[n] # <<>>
    /\ \A p \in 1..Len(printed) : printed[p].count >= 1
    /\ \A k \in 1..Len(test_cases) :
          ~HasTimes(k) =>
              /\ \A p \in 1..Len(printed) : printed[p].title # TitleOfCase(k)
              /\ \A b \in 1..Len(bars) : bars[b].case_name # TitleOfCase(k)
    /\ pc \in {"printed", "plotted"} =>
          \A p \in 1..Len(printed) :
              \E k \in 1..Len(test_cases) : HasTimes(k) /\ printed[p].title = TitleOfCase(k)
    /\ pc = "plotted" =>
          \A b \in 1..Len(bars) :
              \E k \in 1..Len(test_cases) : HasTimes(k) /\ bars[b].case_name = TitleOfCase(k)

\* a list with an empty and a non-empty TestCase went through print_summary
\* and create_plot
C10_Witness ==
    /\ pc = "plotted"
    /\ \E k \in 1..Len(test_cases) : ~HasTimes(k)
    /\ \E k \in 1..Len(test_cases) : HasTimes(k)
    /\ Len(printed) >= 1
    /\ Len(bars) >= 1
    /\ Len(calls) >= 2

\* C11: in the line-scanning parser a 'Success' line always closes the open
\* section, also one without trials: a trial line after a 'Success' line and
\* before the next header line is never recorded.  So the returned TestCases
\* hold no more times than the log has valid trial lines outside those
\* closed stretches.
RECURSIVE TrialsOutsideClosed(_, _, _)
TrialsOutsideClosed(f, i, closed) ==
    IF i > Len(f) THEN 0
    ELSE IF f[i] \in Headers THEN TrialsOutsideClosed(f, i + 1, FALSE)
    ELSE IF f[i] = SuccessLine THEN TrialsOutsideClosed(f, i + 1, TRUE)
    ELSE (IF IsValidTrialLine(f[i]) /\ ~closed THEN 1 ELSE 0)
         + TrialsOutsideClosed(f, i + 1, closed)

RECURSIVE RecordedTimes(_)
RecordedTimes(cases) ==
    IF cases = <<>> THEN 0 ELSE Len(Head(cases).times) + RecordedTimes(Tail(cases))

C11_SuccessClosesSection ==
    (script = "fixed" /\ pc = "parsed") =>
        RecordedTimes(test_cases) <= TrialsOutsideClosed(lines, 1, FALSE)

====
